---- MODULE Spec2Model ----
(***************************************************************************)
(* RocksRecoveryUnit (src/mongo/db/storage/rocks/rocks_recovery_unit.cpp): *)
(* the per-operation transaction context of the RocksDB storage engine.    *)
(*                                                                         *)
(* Every Recovery Unit owns a lazily created write batch with an index, a  *)
(* lazily acquired snapshot of the store, a list of registered Changes, a  *)
(* map of counter deltas and a nesting depth.  The store (rocksdb::DB),    *)
(* its snapshots and the in-memory atomic counters are shared by all       *)
(* Recovery Units.  One action models one whole call of a public method;   *)
(* the private helpers (_commit, _abort, _releaseSnapshot, snapshot) are   *)
(* operators on a record holding the fields the call may read or write.    *)
(***************************************************************************)
EXTENDS Integers, Sequences, FiniteSets, TLC

(* ------------------------------ bounds -------------------------------- *)
\* deepest nesting of beginUnitOfWork the model explores
MaxDepth == 2
\* most records in one write batch before a commit or abort
MaxBatch == 2
\* most Changes registered before a commit or abort
MaxChanges == 2
\* largest magnitude of an accumulated counter delta and of a counter
MaxCounter == 2
\* snapshot handles the store can hand out at one time
MaxSnapshots == 3
\* most recordSnapshotId calls on one unit's transaction
MaxRecorded == 2

(* ----------------------------- input sets ----------------------------- *)
Units == {"A", "B"}
\* the default column family holds the counters (line 135 puts without a
\* column family); cf1 stands for a record store's or an index's family
ColumnFamilies == {"default", "cf1"}
\* keys are byte strings: "k" and "x"
Keys == {<<107>>, <<120>>}
\* values written by callers are byte strings: "1" and "2"
PutValues == {<<49>>, <<50>>}
\* the std::atomic<long long> objects callers pass to incrementCounter
CounterRefs == {"r1", "r2"}
Deltas == {-1, 0, 1}
\* the Change objects callers register
ChangeIds == {1, 2}
\* _snapshot(NULL): no snapshot handle; handles are 1..MaxSnapshots
NULL == 0

VARIABLES
    _depth,          \* [Units -> Int]         RocksRecoveryUnit::_depth
    _writeBatch,     \* [Units -> batch]       RocksRecoveryUnit::_writeBatch
    _snapshot,       \* [Units -> handle]      RocksRecoveryUnit::_snapshot
    _changes,        \* [Units -> Seq(change)] RocksRecoveryUnit::_changes
    _deltaCounters,  \* [Units -> map]         RocksRecoveryUnit::_deltaCounters
    _durable,        \* [Units -> BOOLEAN]     RocksRecoveryUnit::_durable
    alive,           \* [Units -> BOOLEAN]     constructed and not yet destroyed
    db,              \* the store: a map from <<column family, key>> to a value
    snapshots,       \* live snapshot handles: handle -> [owner, view]
    counters,        \* [CounterRefs -> Int]   the shared in-memory counters
    fatal,           \* an invariant() failed: the process has terminated
    _transaction,    \* [Units -> [recorded]]  RocksRecoveryUnit::_transaction: the
                     \* recordSnapshotId calls the conflict tracker has got for it
    pc,              \* [Units -> frame]       where the unit's thread stands inside
                     \* _commit (at = "" outside of it), the counter keys it has
                     \* yet to visit and the local newValue
    last             \* the most recent call: the unit, the method, the depth it was
                     \* called at, its arguments (num: the delta or the Change), the
                     \* calls it made, the batch it wrote, and what it returned
                     \* (result: a Get's status and value, num: a delta, scan: an
                     \* iterator's entries)

vars == <<_depth, _writeBatch, _snapshot, _changes, _deltaCounters, _durable,
          alive, db, snapshots, counters, fatal, _transaction, pc, last>>

(* -------------------------- byte strings ------------------------------ *)
Min(a, b) == IF a < b THEN a ELSE b

\* rocksdb::BytewiseComparator(): a < b in lexicographic byte order
BytewiseLess(a, b) ==
    \/ \E i \in 1..Min(Len(a), Len(b)) :
          /\ \A j \in 1..(i - 1) : a[j] = b[j]
          /\ a[i] < b[i]
    \/ /\ Len(a) < Len(b)
       /\ \A j \in 1..Len(a) : a[j] = b[j]

Pow256(i) == IF i = 0 THEN 1 ELSE IF i = 1 THEN 256 ELSE IF i = 2 THEN 65536 ELSE 16777216

\* Slice(reinterpret_cast<char*>(&newValue), sizeof(long long)): the eight
\* bytes of a two's complement long long in the platform's (little-endian)
\* order.  Exact for |n| < 2^31, which covers every counter of the model.
EncodeLongLong(n) ==
    [i \in 1..8 |->
        IF n >= 0
            THEN (IF i <= 4 THEN (n \div Pow256(i - 1)) % 256 ELSE 0)
            ELSE (IF i <= 4 THEN 255 - ((((-n) - 1) \div Pow256(i - 1)) % 256) ELSE 255)]

\* the long long a reader recovers from the eight bytes
DecodeLongLong(b) ==
    IF b[8] < 128
        THEN b[1] + 256 * b[2] + 65536 * b[3] + 16777216 * b[4]
        ELSE -(1 + (255 - b[1]) + 256 * (255 - b[2]) + 65536 * (255 - b[3])
                 + 16777216 * (255 - b[4]))

(* ------------------------------ the store ----------------------------- *)
\* result of a point lookup: rocksdb::Status and the value copied out
StatusOK(v) == [status |-> "OK", value |-> v]
StatusNotFound == [status |-> "NotFound", value |-> <<>>]

\* rocksdb::DB::Get on a view of the store (a snapshot's or the current one)
DbGet(view, cf, key) ==
    IF <<cf, key>> \in DOMAIN view THEN StatusOK(view[<<cf, key>>]) ELSE StatusNotFound

\* one record of a WriteBatch applied to a view
ApplyRecord(view, rec) ==
    LET c == <<rec.cf, rec.key>> IN
    IF rec.type = "kPutRecord"
        THEN [x \in DOMAIN view \cup {c} |-> IF x = c THEN rec.value ELSE view[x]]
        ELSE [x \in DOMAIN view \ {c} |-> view[x]]

\* rocksdb::DB::Write: the records of the batch applied in order, atomically
RECURSIVE DbWrite(_, _)
DbWrite(view, rep) ==
    IF rep = <<>> THEN view ELSE DbWrite(ApplyRecord(view, Head(rep)), Tail(rep))

(* ------------------------ WriteBatchWithIndex ------------------------- *)
\* _writeBatch(): the scoped_ptr holds no batch
NoWriteBatch == [allocated |-> FALSE, rep |-> <<>>, index |-> {}]

\* new rocksdb::WriteBatchWithIndex(BytewiseComparator(), 0, true)
NewWriteBatchWithIndex == [allocated |-> TRUE, rep |-> <<>>, index |-> {}]

PutRecord(cf, key, value) == [type |-> "kPutRecord", cf |-> cf, key |-> key, value |-> value]
DeleteRecord(cf, key) == [type |-> "kDeleteRecord", cf |-> cf, key |-> key, value |-> <<>>]

\* the index of a batch created with overwrite_key false: every record gets
\* an index entry of its own
WBWIAdd_NoOverwrite(wb, rec) ==
    LET offset == Len(wb.rep) + 1 IN
    [wb EXCEPT !.rep = Append(@, rec),
               !.index = @ \cup {[cf |-> rec.cf, key |-> rec.key, offset |-> offset]}]

\* WriteBatchWithIndex::Put / Delete: the record is appended to the batch
\* and, overwrite_key being true, the index entry of the same column family
\* and key is moved to the new record instead of a second entry being added.
WBWIAdd(wb, rec) ==
    LET offset == Len(wb.rep) + 1 IN
    [wb EXCEPT !.rep = Append(@, rec),
               !.index = {e \in @ : ~(e.cf = rec.cf /\ e.key = rec.key)}
                         \cup {[cf |-> rec.cf, key |-> rec.key, offset |-> offset]}]

\* GetWriteBatch()->Count()
Count(wb) == Len(wb.rep)

\* NewIterator(columnFamily)->Seek(key): the first index entry of the column
\* family, in (key, offset) order, whose key is not less than `key`; the
\* empty set when the iterator is not Valid().
WBWISeek(wb, cf, key) ==
    LET cand == {e \in wb.index : e.cf = cf /\ ~BytewiseLess(e.key, key)} IN
    {e \in cand : \A f \in cand :
        \/ BytewiseLess(e.key, f.key)
        \/ (e.key = f.key /\ e.offset <= f.offset)}

(* ------------------- the fields one call works on ---------------------- *)
Handles == 1..MaxSnapshots
EmptyMap == [x \in {} |-> <<>>]
Call(name, arg) == [call |-> name, arg |-> arg]

\* rocksdb::WriteOptions(): the write-ahead log is used unless disabled
DefaultWriteOptions == [disableWAL |-> FALSE]

\* The fields of unit u and the shared objects, as one call sees them, and
\* what the call has done so far: the calls it made on the store, on the
\* conflict tracker's transaction and on the Changes, and the batch it wrote.
Fields(u) ==
    [u |-> u, depth |-> _depth[u], writeBatch |-> _writeBatch[u],
     snapshot |-> _snapshot[u], changes |-> _changes[u],
     deltaCounters |-> _deltaCounters[u], durable |-> _durable[u],
     db |-> db, snapshots |-> snapshots, counters |-> counters, fatal |-> fatal,
     calls |-> <<>>, written |-> <<>>, writeOptions |-> DefaultWriteOptions]

Log(s, name, arg) == [s EXCEPT !.calls = Append(@, Call(name, arg))]
NumCalls(calls, name) == Cardinality({i \in 1..Len(calls) : calls[i].call = name})

\* _db->GetSnapshot(): a new handle on the store's current contents
FreeHandle(snaps) == CHOOSE h \in Handles \ DOMAIN snaps : \A g \in Handles \ DOMAIN snaps : h <= g
DbGetSnapshot(s, h) ==
    [Log(s, "GetSnapshot", h) EXCEPT
        !.snapshots = [x \in DOMAIN @ \cup {h} |->
                          IF x = h THEN [owner |-> s.u, view |-> s.db] ELSE @[x]]]

\* _db->ReleaseSnapshot(handle)
DbReleaseSnapshot(s, h) ==
    [Log(s, "ReleaseSnapshot", h) EXCEPT
        !.snapshots = [x \in DOMAIN @ \ {h} |-> @[x]]]

(* ------------------------- private helpers ----------------------------- *)
\* RocksRecoveryUnit::writeBatch(): created on first use
writeBatch(s) ==
    IF ~s.writeBatch.allocated
        THEN [s EXCEPT !.writeBatch = NewWriteBatchWithIndex]
        ELSE s

\* _releaseSnapshot that returns without releasing
_releaseSnapshot_Skips(s) == s

\* RocksRecoveryUnit::_releaseSnapshot()
_releaseSnapshot(s) ==
    IF s.snapshot # NULL
        THEN [DbReleaseSnapshot(s, s.snapshot) EXCEPT !.snapshot = NULL]
        ELSE s

\* snapshot() without the test of _snapshot: every call takes a new handle
snapshot_AlwaysAcquires(s) ==
    LET s1 == Log(s, "recordSnapshotId", 0)
        h  == FreeHandle(s1.snapshots)
    IN  [DbGetSnapshot(s1, h) EXCEPT !.snapshot = h]

\* snapshot() that captures first and records the snapshot id afterwards
snapshot_CapturesFirst(s) ==
    IF s.snapshot = NULL
        THEN LET h  == FreeHandle(s.snapshots)
                 s1 == [DbGetSnapshot(s, h) EXCEPT !.snapshot = h]
             IN  Log(s1, "recordSnapshotId", 0)
        ELSE s

\* snapshot() that records a snapshot id on every call, held handle or not
snapshot_RecordsAlways(s) ==
    LET s1 == Log(s, "recordSnapshotId", 0)
    IN  IF s.snapshot = NULL
            THEN LET h == FreeHandle(s1.snapshots)
                 IN  [DbGetSnapshot(s1, h) EXCEPT !.snapshot = h]
            ELSE s1

\* RocksRecoveryUnit::snapshot()
snapshot(s) ==
    IF s.snapshot = NULL
        THEN LET s1 == Log(s, "recordSnapshotId", 0)
                 h  == FreeHandle(s1.snapshots)
             IN  [DbGetSnapshot(s1, h) EXCEPT !.snapshot = h]
        ELSE s

\* the loop of _commit over _deltaCounters, visiting the keys in `order`
\* (an unordered_map iterates in an unspecified order)
RECURSIVE FlushCounters(_, _)
FlushCounters(s, order) ==
    IF order = <<>> THEN s
    ELSE LET key      == Head(order)
             counter  == s.deltaCounters[key]
             s1       == [s EXCEPT !.counters[counter._value] = @ + counter._delta]
             newValue == s1.counters[counter._value]
             s2       == writeBatch(s1)
             s3       == [s2 EXCEPT !.writeBatch =
                             WBWIAdd(@, PutRecord("default", key, EncodeLongLong(newValue)))]
         IN  FlushCounters(s3, Tail(order))

\* the Write of _commit without the test of the status it returns
WriteBatchToDb_IgnoresStatus(s, ok) ==
    LET s1 == [Log(s, "Write", Count(s.writeBatch)) EXCEPT !.writeOptions = DefaultWriteOptions]
    IN  Log(IF ok THEN [s1 EXCEPT !.db = DbWrite(@, s.writeBatch.rep),
                                  !.written = s.writeBatch.rep]
                  ELSE s1,
            "transaction.commit", 0)

\* the Write of _commit: the options passed are a fresh WriteOptions(), not
\* the local writeOptions whose disableWAL was set from _durable
WriteBatchToDb(s, ok) ==
    LET writeOptions == [DefaultWriteOptions EXCEPT !.disableWAL = ~s.durable]
        passed       == DefaultWriteOptions
        s1           == [Log(s, "Write", Count(s.writeBatch)) EXCEPT !.writeOptions = passed]
    IN  IF ok
            THEN Log([s1 EXCEPT !.db = DbWrite(@, s.writeBatch.rep),
                                !.written = s.writeBatch.rep],
                     "transaction.commit", 0)
            ELSE [s1 EXCEPT !.fatal = TRUE]

\* _deltaCounters.clear(); _writeBatch.reset(); as _commit and _abort end.
\* The log keeps how many entries and records were dropped.
ClearBuffers(s) ==
    LET s1 == Log(s, "_deltaCounters.clear", Cardinality(DOMAIN s.deltaCounters))
        s2 == Log(s1, "_writeBatch.reset", Count(s.writeBatch))
    IN  [s2 EXCEPT !.deltaCounters = EmptyMap, !.writeBatch = NoWriteBatch]

\* RocksRecoveryUnit::_commit(); `ok` is the status the store returns
_commit(s, order, ok) ==
    IF ~s.writeBatch.allocated
        THEN [s EXCEPT !.fatal = TRUE]
        ELSE LET s1 == FlushCounters(s, order)
                 s2 == IF Count(s1.writeBatch) # 0 THEN WriteBatchToDb(s1, ok) ELSE s1
             IN  IF s2.fatal THEN s2 ELSE ClearBuffers(s2)

\* (*it)->commit() for every Change, first registered first
RECURSIVE CommitChanges(_, _)
CommitChanges(s, cs) ==
    IF cs = <<>> THEN s ELSE CommitChanges(Log(s, "Change.commit", Head(cs)), Tail(cs))

\* the rollback loop run with begin()/end() instead of rbegin()/rend()
RECURSIVE RollbackChanges_Forward(_, _)
RollbackChanges_Forward(s, cs) ==
    IF cs = <<>> THEN s
    ELSE RollbackChanges_Forward(Log(s, "Change.rollback", Head(cs)), Tail(cs))

\* (*it)->rollback() for every Change, last registered first
RECURSIVE RollbackChanges(_, _)
RollbackChanges(s, cs) ==
    IF cs = <<>> THEN s
    ELSE RollbackChanges(Log(s, "Change.rollback", cs[Len(cs)]), SubSeq(cs, 1, Len(cs) - 1))

\* _abort without _deltaCounters.clear() and _writeBatch.reset()
_abort_KeepsBuffers(s) ==
    LET s1 == [RollbackChanges(s, s.changes) EXCEPT !.changes = <<>>]
        s2 == Log(s1, "transaction.abort", 0)
    IN  _releaseSnapshot(s2)

\* RocksRecoveryUnit::_abort()
_abort(s) ==
    LET s1 == [RollbackChanges(s, s.changes) EXCEPT !.changes = <<>>]
        s2 == Log(s1, "transaction.abort", 0)
    IN  _releaseSnapshot(ClearBuffers(s2))

(* -------------------------- public methods ----------------------------- *)
\* RocksRecoveryUnit::beginUnitOfWork()
beginUnitOfWork(s) == [s EXCEPT !.depth = @ + 1]

\* commitUnitOfWork without the early return of an inner unit of work
commitUnitOfWork_NoDepthCheck(s, order, ok) ==
    LET s1 == IF s.writeBatch.allocated THEN _commit(s, order, ok) ELSE s
    IN  IF s1.fatal
            THEN s1
            ELSE _releaseSnapshot([CommitChanges(s1, s1.changes) EXCEPT !.changes = <<>>])

\* commitUnitOfWork that notifies the conflict tracker itself, batch or not
commitUnitOfWork_AlwaysNotifies(s, order, ok) ==
    IF s.depth > 1
        THEN s
        ELSE LET s1 == IF s.writeBatch.allocated THEN _commit(s, order, ok) ELSE s
                 s2 == Log(s1, "transaction.commit", 0)
             IN  IF s1.fatal
                     THEN s1
                     ELSE _releaseSnapshot(
                              [CommitChanges(s2, s2.changes) EXCEPT !.changes = <<>>])

\* commitUnitOfWork without _changes.clear()
commitUnitOfWork_KeepsChanges(s, order, ok) ==
    IF s.depth > 1
        THEN s
        ELSE LET s1 == IF s.writeBatch.allocated THEN _commit(s, order, ok) ELSE s
             IN  IF s1.fatal
                     THEN s1
                     ELSE _releaseSnapshot(CommitChanges(s1, s1.changes))

\* commitUnitOfWork that releases the snapshot before it commits the Changes
commitUnitOfWork_ReleasesFirst(s, order, ok) ==
    IF s.depth > 1
        THEN s
        ELSE LET s1 == IF s.writeBatch.allocated THEN _commit(s, order, ok) ELSE s
                 s2 == _releaseSnapshot(s1)
             IN  IF s1.fatal
                     THEN s1
                     ELSE [CommitChanges(s2, s2.changes) EXCEPT !.changes = <<>>]

\* RocksRecoveryUnit::commitUnitOfWork()
commitUnitOfWork(s, order, ok) ==
    IF s.depth > 1
        THEN s
        ELSE LET s1 == IF s.writeBatch.allocated THEN _commit(s, order, ok) ELSE s
             IN  IF s1.fatal
                     THEN s1
                     ELSE _releaseSnapshot(
                              [CommitChanges(s1, s1.changes) EXCEPT !.changes = <<>>])

\* RocksRecoveryUnit::endUnitOfWork()
endUnitOfWork(s) ==
    LET s1 == [s EXCEPT !.depth = @ - 1]
    IN  IF s1.depth = 0 THEN _abort(s1) ELSE s1

\* commitAndRestart without its invariant
commitAndRestart_NoInvariant(s, order, ok) == commitUnitOfWork(s, order, ok)

\* RocksRecoveryUnit::commitAndRestart()
commitAndRestart(s, order, ok) ==
    IF s.depth # 0
        THEN [s EXCEPT !.fatal = TRUE]
        ELSE commitUnitOfWork(s, order, ok)

\* RocksRecoveryUnit::registerChange()
registerChange(s, change) == [s EXCEPT !.changes = Append(@, change)]

\* the lookup of Get in the write batch: the set holding the result, or the
\* empty set when the batch does not decide the key
GetFromBatch(s, cf, key) ==
    IF s.writeBatch.allocated /\ Count(s.writeBatch) > 0
        THEN LET it == WBWISeek(s.writeBatch, cf, key)
             IN  {IF s.writeBatch.rep[e.offset].type = "kDeleteRecord"
                      THEN StatusNotFound
                      ELSE StatusOK(s.writeBatch.rep[e.offset].value)
                  : e \in {e \in it : e.key = key}}
        ELSE {}

\* RocksRecoveryUnit::Get(): the fields after the call
Get(s, cf, key) ==
    IF GetFromBatch(s, cf, key) # {} THEN s ELSE snapshot(s)

\* Get with ReadOptions that carry no snapshot: the store's latest is read
GetResult_NoSnapshot(s, cf, key) ==
    IF GetFromBatch(s, cf, key) # {}
        THEN CHOOSE r \in GetFromBatch(s, cf, key) : TRUE
        ELSE DbGet(s.db, cf, key)

\* RocksRecoveryUnit::Get(): the status and value returned
GetResult(s, cf, key) ==
    IF GetFromBatch(s, cf, key) # {}
        THEN CHOOSE r \in GetFromBatch(s, cf, key) : TRUE
        ELSE LET s1 == snapshot(s)
             IN  DbGet(s1.snapshots[s1.snapshot].view, cf, key)

\* RocksRecoveryUnit::incrementCounter()
incrementCounter(s, counterKey, counter, delta) ==
    IF delta = 0
        THEN s
        ELSE IF counterKey \notin DOMAIN s.deltaCounters
            THEN [s EXCEPT !.deltaCounters =
                     [x \in DOMAIN @ \cup {counterKey} |->
                         IF x = counterKey
                             THEN [_value |-> counter, _delta |-> delta]
                             ELSE @[x]]]
            ELSE [s EXCEPT !.deltaCounters[counterKey]._delta = @ + delta]

\* RocksRecoveryUnit::getDeltaCounter()
getDeltaCounter(s, counterKey) ==
    IF counterKey \notin DOMAIN s.deltaCounters
        THEN 0
        ELSE s.deltaCounters[counterKey]._delta

\* RocksRecoveryUnit::NewIterator(): the fields after the call
NewIterator(s, cf) ==
    IF cf = "default" THEN [s EXCEPT !.fatal = TRUE] ELSE snapshot(s)

\* RocksRecoveryUnit::NewIterator(): what the returned iterator yields, the
\* snapshot's entries of the column family overlaid with the batch's
IteratorContents(s, cf) ==
    LET s1   == snapshot(s)
        base == s1.snapshots[s1.snapshot].view
        over == IF s.writeBatch.allocated /\ Count(s.writeBatch) > 0
                    THEN {e \in s.writeBatch.index : e.cf = cf}
                    ELSE {}
        dels == {e.key : e \in {e \in over : s.writeBatch.rep[e.offset].type = "kDeleteRecord"}}
        puts == {e \in over : s.writeBatch.rep[e.offset].type = "kPutRecord"}
        keys == ({c[2] : c \in {c \in DOMAIN base : c[1] = cf}} \cup {e.key : e \in puts}) \ dels
    IN  [key \in keys |->
            IF \E e \in puts : e.key = key
                THEN s.writeBatch.rep[(CHOOSE e \in puts : e.key = key).offset].value
                ELSE base[<<cf, key>>]]

(* ------------------------------ actions -------------------------------- *)
NoResult == [status |-> "", value |-> <<>>]

\* the state after a call on unit u that left the fields s
Install(u, s, op, cf, key, result, num, scan) ==
    /\ _depth' = [_depth EXCEPT ![u] = s.depth]
    /\ _writeBatch' = [_writeBatch EXCEPT ![u] = s.writeBatch]
    /\ _snapshot' = [_snapshot EXCEPT ![u] = s.snapshot]
    /\ _changes' = [_changes EXCEPT ![u] = s.changes]
    /\ _deltaCounters' = [_deltaCounters EXCEPT ![u] = s.deltaCounters]
    /\ db' = s.db
    /\ snapshots' = s.snapshots
    /\ counters' = s.counters
    /\ fatal' = s.fatal
    /\ _transaction' = [_transaction EXCEPT
                            ![u].recorded = @ + NumCalls(s.calls, "recordSnapshotId")]
    /\ last' = [unit |-> u, op |-> op, depth |-> _depth[u], cf |-> cf, key |-> key,
                calls |-> s.calls, written |-> s.written,
                writeOptions |-> s.writeOptions,
                result |-> result, num |-> num, scan |-> scan]

\* the thread of a unit is not inside a call
Idle == [at |-> "", order |-> <<>>, newValue |-> 0]

Running(u) == alive[u] /\ ~fatal /\ pc[u] = Idle

\* the orders in which _commit may visit the keys of _deltaCounters
Orders(u) ==
    LET D == DOMAIN _deltaCounters[u]
    IN  {o \in [1..Cardinality(D) -> D] : \A i, j \in 1..Cardinality(D) : o[i] = o[j] => i = j}

\* a snapshot handle is available should the call need one
HandleAvailable == Handles \ DOMAIN snapshots # {}

\* the unit's transaction can take the recordSnapshotId a capture makes
SnapshotIdAvailable(u) == _snapshot[u] # NULL \/ _transaction[u].recorded < MaxRecorded

\* the counter stays within the model's range whatever commits
CounterInRange(ref, delta) ==
    LET pending == {<<u, k>> \in Units \X Keys :
                       k \in DOMAIN _deltaCounters[u] /\ _deltaCounters[u][k]._value = ref}
        Abs(n)  == IF n < 0 THEN -n ELSE n
        RECURSIVE Sum(_)
        Sum(S)  == IF S = {} THEN 0
                   ELSE LET p == CHOOSE p \in S : TRUE
                        IN  Abs(_deltaCounters[p[1]][p[2]]._delta) + Sum(S \ {p})
    IN  Abs(counters[ref]) + Sum(pending) + Abs(delta) <= MaxCounter

Construct(u, durable) ==
    /\ ~alive[u] /\ ~fatal
    /\ alive' = [alive EXCEPT ![u] = TRUE]
    /\ _durable' = [_durable EXCEPT ![u] = durable]
    /\ last' = [unit |-> u, op |-> "RocksRecoveryUnit", depth |-> 0, cf |-> "", key |-> <<>>,
                calls |-> <<>>, written |-> <<>>, writeOptions |-> DefaultWriteOptions,
                result |-> NoResult, num |-> 0, scan |-> EmptyMap]
    /\ _transaction' = [_transaction EXCEPT ![u] = [recorded |-> 0]]
    /\ UNCHANGED <<_depth, _writeBatch, _snapshot, _changes, _deltaCounters,
                   db, snapshots, counters, fatal, pc>>

\* ~RocksRecoveryUnit(): _abort(), after which the object is gone
Destroy(u) ==
    /\ Running(u)
    /\ LET s == _abort(Fields(u))
       IN  Install(u, [s EXCEPT !.depth = 0], "~RocksRecoveryUnit", "", <<>>, NoResult, 0, EmptyMap)
    /\ alive' = [alive EXCEPT ![u] = FALSE]
    /\ UNCHANGED <<_durable, pc>>

BeginUnitOfWork(u) ==
    /\ Running(u)
    /\ _depth[u] < MaxDepth
    /\ Install(u, beginUnitOfWork(Fields(u)), "beginUnitOfWork", "", <<>>, NoResult, 0, EmptyMap)
    /\ UNCHANGED <<_durable, alive, pc>>

CommitUnitOfWork(u) ==
    /\ Running(u)
    /\ \E order \in Orders(u), ok \in BOOLEAN :
          Install(u, commitUnitOfWork(Fields(u), order, ok), "commitUnitOfWork",
                  "", <<>>, NoResult, 0, EmptyMap)
    /\ UNCHANGED <<_durable, alive, pc>>

EndUnitOfWork(u) ==
    /\ Running(u)
    /\ Install(u, endUnitOfWork(Fields(u)), "endUnitOfWork", "", <<>>, NoResult, 0, EmptyMap)
    /\ UNCHANGED <<_durable, alive, pc>>

CommitAndRestart(u) ==
    /\ Running(u)
    /\ \E order \in Orders(u), ok \in BOOLEAN :
          Install(u, commitAndRestart(Fields(u), order, ok), "commitAndRestart",
                  "", <<>>, NoResult, 0, EmptyMap)
    /\ UNCHANGED <<_durable, alive, pc>>

\* a caller's writeBatch()->Put(columnFamily, key, value)
Put(u, cf, key, value) ==
    /\ Running(u)
    /\ Count(_writeBatch[u]) < MaxBatch
    /\ LET s == writeBatch(Fields(u))
       IN  Install(u, [s EXCEPT !.writeBatch = WBWIAdd(@, PutRecord(cf, key, value))],
                   "Put", cf, key, NoResult, 0, EmptyMap)
    /\ UNCHANGED <<_durable, alive, pc>>

\* a caller's writeBatch()->Delete(columnFamily, key)
Delete(u, cf, key) ==
    /\ Running(u)
    /\ Count(_writeBatch[u]) < MaxBatch
    /\ LET s == writeBatch(Fields(u))
       IN  Install(u, [s EXCEPT !.writeBatch = WBWIAdd(@, DeleteRecord(cf, key))],
                   "Delete", cf, key, NoResult, 0, EmptyMap)
    /\ UNCHANGED <<_durable, alive, pc>>

RegisterChange(u, change) ==
    /\ Running(u)
    /\ Len(_changes[u]) < MaxChanges
    /\ \A i \in 1..Len(_changes[u]) : _changes[u][i] # change
    /\ Install(u, registerChange(Fields(u), change), "registerChange", "", <<>>,
               NoResult, change, EmptyMap)
    /\ UNCHANGED <<_durable, alive, pc>>

DoGet(u, cf, key) ==
    /\ Running(u)
    /\ HandleAvailable
    /\ SnapshotIdAvailable(u)
    /\ Install(u, Get(Fields(u), cf, key), "Get", cf, key,
               GetResult(Fields(u), cf, key), 0, EmptyMap)
    /\ UNCHANGED <<_durable, alive, pc>>

DoNewIterator(u, cf) ==
    /\ Running(u)
    /\ HandleAvailable
    /\ SnapshotIdAvailable(u)
    /\ Install(u, NewIterator(Fields(u), cf), "NewIterator", cf, <<>>, NoResult, 0,
               IF cf = "default" THEN EmptyMap ELSE IteratorContents(Fields(u), cf))
    /\ UNCHANGED <<_durable, alive, pc>>

IncrementCounter(u, counterKey, counter, delta) ==
    /\ Running(u)
    /\ CounterInRange(counter, delta)
    /\ Install(u, incrementCounter(Fields(u), counterKey, counter, delta),
               "incrementCounter", "default", counterKey, NoResult, delta, EmptyMap)
    /\ UNCHANGED <<_durable, alive, pc>>

GetDeltaCounter(u, counterKey) ==
    /\ Running(u)
    /\ Install(u, Fields(u), "getDeltaCounter", "default", counterKey, NoResult,
               getDeltaCounter(Fields(u), counterKey), EmptyMap)
    /\ UNCHANGED <<_durable, alive, pc>>

(* ---- commitUnitOfWork step by step, as other threads may see it ------- *)
\* commitUnitOfWork of a unit that has a write batch, up to the loop of
\* _commit: the depth test, the test of _writeBatch, and the order in which
\* the loop will visit _deltaCounters
CommitEnter(u) ==
    /\ Running(u)
    /\ _depth[u] <= 1
    /\ _writeBatch[u].allocated
    /\ \E order \in Orders(u) :
          pc' = [pc EXCEPT ![u] = [at |-> IF order = <<>> THEN "Write" ELSE "fetch_add",
                                   order |-> order, newValue |-> 0]]
    /\ Install(u, Fields(u), "_commit", "", <<>>, NoResult, 0, EmptyMap)
    /\ UNCHANGED <<_durable, alive>>

\* counter._value->fetch_add(counter._delta): one atomic step
CommitFetchAdd(u) ==
    /\ alive[u] /\ ~fatal /\ pc[u].at = "fetch_add"
    /\ LET key     == Head(pc[u].order)
           counter == _deltaCounters[u][key]
       IN  Install(u, [Fields(u) EXCEPT !.counters[counter._value] = @ + counter._delta],
                   "fetch_add", "default", key, NoResult, counter._delta, EmptyMap)
    /\ pc' = [pc EXCEPT ![u].at = "load"]
    /\ UNCHANGED <<_durable, alive>>

\* long long newValue = counter._value->load(): a second atomic step
CommitLoad(u) ==
    /\ alive[u] /\ ~fatal /\ pc[u].at = "load"
    /\ LET key     == Head(pc[u].order)
           counter == _deltaCounters[u][key]
       IN  /\ pc' = [pc EXCEPT ![u].at = "Put", ![u].newValue = counters[counter._value]]
           /\ Install(u, Fields(u), "load", "default", key, NoResult,
                      counters[counter._value], EmptyMap)
    /\ UNCHANGED <<_durable, alive>>

\* writeBatch()->Put(pair.first, newValue), and on to the next entry
CommitPut(u) ==
    /\ alive[u] /\ ~fatal /\ pc[u].at = "Put"
    /\ LET key == Head(pc[u].order)
           s   == writeBatch(Fields(u))
       IN  Install(u, [s EXCEPT !.writeBatch =
                          WBWIAdd(@, PutRecord("default", key, EncodeLongLong(pc[u].newValue)))],
                   "_commit.Put", "default", key, NoResult, pc[u].newValue, EmptyMap)
    /\ pc' = [pc EXCEPT ![u] = [at |-> IF Tail(pc[u].order) = <<>> THEN "Write" ELSE "fetch_add",
                                order |-> Tail(pc[u].order), newValue |-> 0]]
    /\ UNCHANGED <<_durable, alive>>

\* the rest of _commit and of commitUnitOfWork: the Write, the tracker's
\* commit, the clearing of the buffers, the Changes' commits and the release
\* of the snapshot
CommitWrite(u) ==
    /\ alive[u] /\ ~fatal /\ pc[u].at = "Write"
    /\ \E ok \in BOOLEAN :
          LET s  == Fields(u)
              s1 == IF Count(s.writeBatch) # 0 THEN WriteBatchToDb(s, ok) ELSE s
              s2 == IF s1.fatal THEN s1 ELSE ClearBuffers(s1)
              s3 == IF s2.fatal
                        THEN s2
                        ELSE _releaseSnapshot(
                                 [CommitChanges(s2, s2.changes) EXCEPT !.changes = <<>>])
          IN  Install(u, s3, "Write", "", <<>>, NoResult, 0, EmptyMap)
    /\ pc' = [pc EXCEPT ![u] = Idle]
    /\ UNCHANGED <<_durable, alive>>

(* --------------------------- specifications ---------------------------- *)
\* the state after RocksRecoveryUnit(transactionEngine, db, durable) of
\* every unit, on a store that holds "1" under "k" of cf1
InitStore == [c \in {<<"cf1", <<107>>>>} |-> <<49>>]

Init ==
    /\ _depth = [u \in Units |-> 0]
    /\ _writeBatch = [u \in Units |-> NoWriteBatch]
    /\ _snapshot = [u \in Units |-> NULL]
    /\ _changes = [u \in Units |-> <<>>]
    /\ _deltaCounters = [u \in Units |-> EmptyMap]
    /\ _durable = [u \in Units |-> TRUE]
    /\ alive = [u \in Units |-> TRUE]
    /\ db = InitStore
    /\ snapshots = EmptyMap
    /\ counters = [r \in CounterRefs |-> 0]
    /\ fatal = FALSE
    /\ _transaction = [u \in Units |-> [recorded |-> 0]]
    /\ pc = [u \in Units |-> Idle]
    /\ last = [unit |-> "", op |-> "", depth |-> 0, cf |-> "", key |-> <<>>,
               calls |-> <<>>, written |-> <<>>, writeOptions |-> DefaultWriteOptions,
               result |-> NoResult, num |-> 0, scan |-> EmptyMap]

\* One Recovery Unit through its whole life: units of work nested up to
\* MaxDepth, writes, reads, Changes and counter increments at any depth,
\* destruction and construction of a successor.  commitUnitOfWork and
\* endUnitOfWork are called inside a unit of work begun before, as
\* WriteUnitOfWork calls them; at depth 0 commitAndRestart commits.
Next ==
    \/ \E durable \in BOOLEAN : Construct("A", durable)
    \/ Destroy("A")
    \/ BeginUnitOfWork("A")
    \/ (_depth["A"] > 0 /\ CommitUnitOfWork("A"))
    \/ (_depth["A"] > 0 /\ EndUnitOfWork("A"))
    \/ CommitAndRestart("A")
    \/ Put("A", "cf1", <<107>>, <<50>>)
    \/ \E change \in ChangeIds : RegisterChange("A", change)
    \/ DoGet("A", "cf1", <<107>>)
    \/ \E cf \in ColumnFamilies : DoNewIterator("A", cf)
    \/ IncrementCounter("A", <<120>>, "r1", 1)

Spec == Init /\ [][Next]_vars

\* the counter a caller passes with a counter key: every key has its own
CounterOf(key) == IF key = <<107>> THEN "r1" ELSE "r2"

\* One Recovery Unit counting: counter increments of either sign and of
\* zero on two counter keys, reads of the pending deltas, and units of work
\* with and without a buffered write.
NextCounters ==
    \/ BeginUnitOfWork("A")
    \/ (_depth["A"] > 0 /\ CommitUnitOfWork("A"))
    \/ (_depth["A"] > 0 /\ EndUnitOfWork("A"))
    \/ Put("A", "cf1", <<107>>, <<50>>)
    \/ \E key \in Keys, delta \in Deltas : IncrementCounter("A", key, CounterOf(key), delta)
    \/ \E key \in Keys : GetDeltaCounter("A", key)

SpecCounters == Init /\ [][NextCounters]_vars

\* One Recovery Unit buffering puts and deletes on a key and reading that
\* key and another back from either column family, in units of work it
\* commits or ends, while a second unit commits a write of its own.
NextBuffer ==
    \/ (_depth["A"] = 0 /\ BeginUnitOfWork("A"))
    \/ (_depth["A"] > 0 /\ CommitUnitOfWork("A"))
    \/ (_depth["A"] > 0 /\ EndUnitOfWork("A"))
    \/ \E value \in PutValues : Put("A", "cf1", <<107>>, value)
    \/ Delete("A", "cf1", <<107>>)
    \/ \E cf \in ColumnFamilies, key \in Keys : DoGet("A", cf, key)
    \/ Put("B", "cf1", <<107>>, <<50>>)
    \/ CommitAndRestart("B")

SpecBuffer == Init /\ [][NextBuffer]_vars

\* Two Recovery Units on one store: A writes a key and reads it in units of
\* work it commits or ends; B reads the same key inside and outside units of
\* work, which it begins, commits and ends, and commits and restarts.
NextIsolation ==
    \/ \E u \in Units : (_depth[u] = 0 /\ BeginUnitOfWork(u))
    \/ \E u \in Units : (_depth[u] > 0 /\ CommitUnitOfWork(u))
    \/ \E u \in Units : (_depth[u] > 0 /\ EndUnitOfWork(u))
    \/ Put("A", "cf1", <<107>>, <<50>>)
    \/ \E u \in Units : DoGet(u, "cf1", <<107>>)
    \/ CommitAndRestart("B")

SpecIsolation == Init /\ [][NextIsolation]_vars

\* One Recovery Unit called in any order: beginUnitOfWork, commitUnitOfWork,
\* endUnitOfWork and commitAndRestart at whatever depth the unit is at, also
\* an endUnitOfWork no beginUnitOfWork was made for, with writes, Changes
\* and reads in between.
NextAnyOrder ==
    \/ BeginUnitOfWork("A")
    \/ CommitUnitOfWork("A")
    \/ (_depth["A"] > -MaxDepth /\ EndUnitOfWork("A"))
    \/ CommitAndRestart("A")
    \/ Put("A", "cf1", <<107>>, <<50>>)
    \/ RegisterChange("A", 1)
    \/ DoGet("A", "cf1", <<107>>)

SpecAnyOrder == Init /\ [][NextAnyOrder]_vars

\* Two Recovery Units on two threads, each in a unit of work with a
\* buffered write and increments of the same counter under the same key,
\* committing at the same time: the steps of their commits interleave.
NextConcurrent ==
    \/ \E u \in Units : (_depth[u] = 0 /\ BeginUnitOfWork(u))
    \/ \E u \in Units : (_depth[u] = 1 /\ Put(u, "cf1", <<107>>, <<50>>))
    \/ \E u \in Units : (_depth[u] = 1 /\ IncrementCounter(u, <<120>>, "r1", 1))
    \/ \E u \in Units : (_depth[u] = 1 /\ CommitEnter(u))
    \/ \E u \in Units : CommitFetchAdd(u)
    \/ \E u \in Units : CommitLoad(u)
    \/ \E u \in Units : CommitPut(u)
    \/ \E u \in Units : CommitWrite(u)
    \/ \E u \in Units : (_depth[u] = 1 /\ EndUnitOfWork(u))

SpecConcurrent == Init /\ [][NextConcurrent]_vars

(* ---------------------- vocabulary of the claims ------------------------ *)
IsChangeCall(c) == c.call \in {"Change.commit", "Change.rollback"}
ChangeCalls(calls) == SelectSeq(calls, IsChangeCall)
Reverse(q) == [i \in 1..Len(q) |-> q[Len(q) + 1 - i]]
Owned(snaps, u) == {h \in DOMAIN snaps : snaps[h].owner = u}

\* the private fields of the unit that made the last call are as before it
UnitUnchanged ==
    UNCHANGED <<_depth, _writeBatch, _snapshot, _changes, _deltaCounters>>
SharedUnchanged == UNCHANGED <<db, snapshots, counters>>

\* the next state ends a commitUnitOfWork called at a depth above 1
NestedCommit == last'.op = "commitUnitOfWork" /\ last'.depth > 1

(* ------------------------------- C1 ------------------------------------ *)
\* C1 as stated: a commitUnitOfWork at depth > 1 calls nothing and changes
\* nothing, and a store write is made only by a commitUnitOfWork at depth 1.
C1_Original ==
    [][/\ NestedCommit => (last'.calls = <<>> /\ UnitUnchanged /\ SharedUnchanged /\ ~fatal')
       /\ NumCalls(last'.calls, "Write") > 0 =>
              (last'.op = "commitUnitOfWork" /\ last'.depth = 1)]_vars

\* C1 amended: a commitUnitOfWork at depth > 1 calls nothing (no store
\* write, no conflict-tracker call, no Change callback) and leaves the write
\* batch, the counter deltas, the Change list, the snapshot, the depth and
\* the store as they were; a store write is made only by a commitUnitOfWork
\* that runs at depth <= 1: called at depth 1, or run at depth 0, which is
\* where commitAndRestart runs it.
C1_NestedCommitNoOp ==
    [][/\ NestedCommit => (last'.calls = <<>> /\ UnitUnchanged /\ SharedUnchanged /\ ~fatal')
       /\ NumCalls(last'.calls, "Write") > 0 =>
              (last'.op \in {"commitUnitOfWork", "commitAndRestart"} /\ last'.depth <= 1)]_vars

\* a commitUnitOfWork at depth 2 has returned with writes, a counter delta, a
\* Change and a snapshot all still in place
C1_Witness ==
    /\ last.op = "commitUnitOfWork" /\ last.depth > 1
    /\ Count(_writeBatch[last.unit]) > 0
    /\ DOMAIN _deltaCounters[last.unit] # {}
    /\ _changes[last.unit] # <<>>
    /\ _snapshot[last.unit] # NULL

(* ------------------------------- C3 ------------------------------------ *)
\* the next state ends a call that ran _abort: an endUnitOfWork that brought
\* the depth to 0, or the destructor
PhysicalAbort ==
    \/ last'.op = "endUnitOfWork" /\ _depth'[last'.unit] = 0
    \/ last'.op = "~RocksRecoveryUnit"

\* the next state ends a commitUnitOfWork that ran at depth <= 1 and that the
\* store did not fail
PhysicalCommit ==
    /\ last'.op \in {"commitUnitOfWork", "commitAndRestart"}
    /\ last'.depth <= 1
    /\ ~fatal'

CallsOn(name, cs) == [i \in 1..Len(cs) |-> Call(name, cs[i])]

\* C3: a physical abort calls rollback() on the registered Changes, last
\* registered first, and nothing else on any Change; a physical commit calls
\* commit() on them, first registered first, and nothing else on any Change;
\* the Change list is empty after either.
C3_ChangeOrder ==
    [][/\ PhysicalAbort =>
              /\ ChangeCalls(last'.calls)
                     = CallsOn("Change.rollback", Reverse(_changes[last'.unit]))
              /\ _changes'[last'.unit] = <<>>
       /\ PhysicalCommit =>
              /\ ChangeCalls(last'.calls) = CallsOn("Change.commit", _changes[last'.unit])
              /\ _changes'[last'.unit] = <<>>]_vars

\* an abort has rolled back two Changes
C3_Witness ==
    /\ last.op = "endUnitOfWork"
    /\ NumCalls(last.calls, "Change.rollback") >= 2
    /\ _changes[last.unit] = <<>>

(* ------------------------------- C8 ------------------------------------ *)
NumCallsOn(calls, name, arg) ==
    Cardinality({i \in 1..Len(calls) : calls[i] = Call(name, arg)})

\* C8: when a unit of work is ended at depth 0 or the unit is destroyed,
\* every registered Change gets rollback() exactly once and no commit(), the
\* write batch and the counter deltas are dropped without a store write, the
\* store and the in-memory counters are as before the call, and the snapshot
\* is released.  The store and the counters change in no call other than a
\* commit, so they still hold the values from before the unit of work.
C8_AbortUndoes ==
    [][/\ PhysicalAbort =>
              /\ \A i \in 1..Len(_changes[last'.unit]) :
                    NumCallsOn(last'.calls, "Change.rollback", _changes[last'.unit][i]) = 1
              /\ NumCalls(last'.calls, "Change.rollback") = Len(_changes[last'.unit])
              /\ NumCalls(last'.calls, "Change.commit") = 0
              /\ NumCalls(last'.calls, "Write") = 0
              /\ _writeBatch'[last'.unit] = NoWriteBatch
              /\ _deltaCounters'[last'.unit] = EmptyMap
              /\ _changes'[last'.unit] = <<>>
              /\ db' = db
              /\ counters' = counters
              /\ _snapshot'[last'.unit] = NULL
              /\ Owned(snapshots', last'.unit) = {}
              /\ ~fatal'
       /\ (db' # db \/ counters' # counters) =>
              (last'.op \in {"commitUnitOfWork", "commitAndRestart"} /\ last'.depth <= 1)]_vars

\* a unit holding a Change, a buffered write, a counter delta and a snapshot
\* has been destroyed
C8_Witness ==
    /\ last.op = "~RocksRecoveryUnit"
    /\ NumCalls(last.calls, "Change.rollback") >= 1
    /\ \E i \in 1..Len(last.calls) :
          last.calls[i].call = "_writeBatch.reset" /\ last.calls[i].arg > 0
    /\ \E i \in 1..Len(last.calls) :
          last.calls[i].call = "_deltaCounters.clear" /\ last.calls[i].arg > 0
    /\ NumCalls(last.calls, "ReleaseSnapshot") = 1

(* ------------------------------- C9 ------------------------------------ *)
\* C9: a unit owns at most one live handle, the one _snapshot names; the
\* handles it owns grow by the GetSnapshot calls and shrink by the
\* ReleaseSnapshot calls of each call, so no release hits a handle that is
\* not live; and a destroyed unit owns none, so that over its life it has
\* released as many handles as it acquired.
C9_OneSnapshot ==
    [][\A u \in Units :
          /\ Cardinality(Owned(snapshots', u)) <= 1
          /\ Owned(snapshots', u) = {_snapshot'[u]} \ {NULL}
          /\ ~alive'[u] => Owned(snapshots', u) = {}
          /\ Cardinality(Owned(snapshots', u))
                 = Cardinality(Owned(snapshots, u))
                   + (IF last'.unit = u
                          THEN NumCalls(last'.calls, "GetSnapshot")
                               - NumCalls(last'.calls, "ReleaseSnapshot")
                          ELSE 0)]_vars

\* a unit that held a snapshot has been destroyed and its handle released
C9_Witness ==
    /\ last.op = "~RocksRecoveryUnit"
    /\ NumCalls(last.calls, "ReleaseSnapshot") = 1
    /\ Owned(snapshots, last.unit) = {}

(* ------------------------------- C10 ----------------------------------- *)
\* the last record of the batch on a cell: the set holding it, or empty
LastOpOn(rep, cf, key) ==
    {rep[i] : i \in {i \in 1..Len(rep) :
        /\ rep[i].cf = cf /\ rep[i].key = key
        /\ \A j \in (i + 1)..Len(rep) : ~(rep[j].cf = cf /\ rep[j].key = key)}}

\* the store `after` holds, on the cell, what the batch last did to it, and
\* what `before` held when the batch did not touch it
CellWritten(before, after, rep, cf, key) ==
    LET op == LastOpOn(rep, cf, key) IN
    IF op = {} THEN DbGet(after, cf, key) = DbGet(before, cf, key)
    ELSE \A r \in op :
            IF r.type = "kDeleteRecord"
                THEN DbGet(after, cf, key) = StatusNotFound
                ELSE DbGet(after, cf, key) = StatusOK(r.value)

\* C10: commitAndRestart at a depth other than 0 fails its invariant and
\* changes nothing; at depth 0, the store accepting the batch, the buffered
\* records are written to the store in the order they were buffered, the
\* Changes are committed in registration order, the snapshot is released,
\* and the unit is left at depth 0 with no write batch, no Change and no
\* snapshot, also when nothing was buffered.
C10_CommitAndRestart ==
    [][last'.op = "commitAndRestart" =>
          IF last'.depth # 0
              THEN fatal' /\ last'.calls = <<>> /\ UnitUnchanged /\ SharedUnchanged
              ELSE ~fatal' =>
                  /\ SubSeq(last'.written, 1, Count(_writeBatch[last'.unit]))
                         = _writeBatch[last'.unit].rep
                  /\ NumCalls(last'.calls, "Write")
                         = (IF Count(_writeBatch[last'.unit]) > 0 THEN 1 ELSE 0)
                  /\ \A cf \in ColumnFamilies, key \in Keys :
                        (cf = "default" /\ key \in DOMAIN _deltaCounters[last'.unit])
                        \/ CellWritten(db, db', _writeBatch[last'.unit].rep, cf, key)
                  /\ ChangeCalls(last'.calls) = CallsOn("Change.commit", _changes[last'.unit])
                  /\ NumCalls(last'.calls, "ReleaseSnapshot")
                         = (IF _snapshot[last'.unit] # NULL THEN 1 ELSE 0)
                  /\ _depth'[last'.unit] = 0
                  /\ _writeBatch'[last'.unit] = NoWriteBatch
                  /\ _changes'[last'.unit] = <<>>
                  /\ _snapshot'[last'.unit] = NULL
                  /\ Owned(snapshots', last'.unit) = {}]_vars

\* commitAndRestart at depth 0 has written buffered records, committed a
\* Change and released the snapshot
C10_Witness ==
    /\ last.op = "commitAndRestart" /\ last.depth = 0 /\ ~fatal
    /\ last.written # <<>>
    /\ NumCalls(last.calls, "Change.commit") >= 1
    /\ NumCalls(last.calls, "ReleaseSnapshot") = 1
    /\ _depth[last.unit] = 0

(* ------------------------------- C4 ------------------------------------ *)
\* the delta pending on a counter key in a unit's map
Pending(dc, key) == IF key \in DOMAIN dc THEN dc[key]._delta ELSE 0

\* C4: getDeltaCounter(k) returns the delta pending on k and changes
\* nothing; incrementCounter(k, ref, d) adds d to the delta pending on k and
\* leaves every other key's alone, and with d = 0 creates no entry and
\* changes nothing; the pending deltas are 0 after every physical commit and
\* every physical abort, and no other call changes them: so the delta
\* returned is the sum of the deltas passed since the last physical commit
\* or abort.
C4_DeltaIsSum ==
    [][/\ last'.op = "getDeltaCounter" =>
              /\ last'.num = Pending(_deltaCounters[last'.unit], last'.key)
              /\ UnitUnchanged /\ SharedUnchanged
       /\ last'.op = "incrementCounter" =>
              /\ \A key \in Keys :
                    Pending(_deltaCounters'[last'.unit], key)
                        = Pending(_deltaCounters[last'.unit], key)
                          + (IF key = last'.key THEN last'.num ELSE 0)
              /\ last'.num = 0 => (UnitUnchanged /\ SharedUnchanged)
       /\ (PhysicalCommit \/ PhysicalAbort) =>
              \A key \in Keys : Pending(_deltaCounters'[last'.unit], key) = 0
       /\ ~(PhysicalCommit \/ PhysicalAbort \/ last'.op = "incrementCounter") =>
              UNCHANGED _deltaCounters]_vars

(* ------------------------------- C5 ------------------------------------ *)
\* the records of a written batch that put the key in the default family
CounterWrites(written, key) ==
    {i \in 1..Len(written) : written[i].cf = "default" /\ written[i].key = key}

\* C5: a commitUnitOfWork at depth 1 that the store accepts writes, for
\* every key with a pending counter delta, exactly one record under the key,
\* holding the counter's value before the commit plus the pending delta (the
\* deltas passed, d1 + d2), and leaves that total in the in-memory counter
\* and in the store.
C5_CounterPersisted ==
    [][(last'.op = "commitUnitOfWork" /\ last'.depth = 1 /\ ~fatal') =>
          \A key \in DOMAIN _deltaCounters[last'.unit] :
              LET counter == _deltaCounters[last'.unit][key]
                  total   == counters[counter._value] + counter._delta
              IN  /\ Cardinality(CounterWrites(last'.written, key)) = 1
                  /\ \A i \in CounterWrites(last'.written, key) :
                        /\ last'.written[i].type = "kPutRecord"
                        /\ DecodeLongLong(last'.written[i].value) = total
                  /\ DbGet(db', "default", key) = StatusOK(EncodeLongLong(total))
                  /\ counters'[counter._value] = total]_vars

(* ------------------------------- C2 ------------------------------------ *)
\* what the batch's records, read in the order they were buffered, leave on
\* a cell: the set holding the status and value, empty for an untouched cell
Buffered(rep, cf, key) ==
    {IF r.type = "kDeleteRecord" THEN StatusNotFound ELSE StatusOK(r.value)
        : r \in LastOpOn(rep, cf, key)}

\* C2: a Get returns, for a key the unit's write batch touches, the value of
\* the last put buffered on it, or NotFound when the last record on it is a
\* delete, whatever the store holds; for a key the batch does not touch, it
\* returns what the snapshot the unit holds has for the key.
C2_ReadYourWrites ==
    last.op = "Get" =>
        LET rep == _writeBatch[last.unit].rep
        IN  IF Buffered(rep, last.cf, last.key) # {}
                THEN last.result \in Buffered(rep, last.cf, last.key)
                ELSE /\ _snapshot[last.unit] \in DOMAIN snapshots
                     /\ last.result
                            = DbGet(snapshots[_snapshot[last.unit]].view, last.cf, last.key)

\* a Get has returned the second of two different records buffered on its
\* key, which is not what the store holds
C2_Witness ==
    /\ last.op = "Get"
    /\ LET rep == _writeBatch[last.unit].rep
       IN  /\ Len(rep) = 2
           /\ \A i \in 1..2 : rep[i].cf = last.cf /\ rep[i].key = last.key
           /\ rep[1] # rep[2]
           /\ last.result \in Buffered(rep, last.cf, last.key)
           /\ last.result # DbGet(db, last.cf, last.key)

(* ------------------------------- C6 ------------------------------------ *)
\* a Get of the unit on the key would be decided by the store, not the batch
Untouched(wb, cf, key) == Buffered(wb.rep, cf, key) = {}

\* what a Get by the unit that made the call would return in the next state
NextGet(cf, key) ==
    LET u == last'.unit
    IN  GetResult([u |-> u, depth |-> _depth'[u], writeBatch |-> _writeBatch'[u],
                   snapshot |-> _snapshot'[u], changes |-> _changes'[u],
                   deltaCounters |-> _deltaCounters'[u], durable |-> _durable'[u],
                   db |-> db', snapshots |-> snapshots', counters |-> counters',
                   fatal |-> fatal', calls |-> <<>>, written |-> <<>>,
                   writeOptions |-> DefaultWriteOptions], cf, key)

\* the store changes only in a physical commit, and only as the committing
\* unit's batch says
OnlyCommitsWrite ==
    /\ db' # db => PhysicalCommit
    /\ \A key \in Keys : CellWritten(db, db', last'.written, "cf1", key)

\* a Get in the next state: own buffered writes are returned; any other key
\* is read from the view of the handle the unit then holds
GetReadsBatchThenSnapshot ==
    last'.op = "Get" =>
        IF Untouched(_writeBatch[last'.unit], last'.cf, last'.key)
            THEN /\ _snapshot'[last'.unit] \in DOMAIN snapshots'
                 /\ last'.result
                        = DbGet(snapshots'[_snapshot'[last'.unit]].view, last'.cf, last'.key)
            ELSE last'.result \in Buffered(_writeBatch[last'.unit].rep, last'.cf, last'.key)

\* a snapshot's view is the store as committed when the handle was taken,
\* and stays that while the handle lives
ViewsAreCommittedStates ==
    \A h \in DOMAIN snapshots' :
        snapshots'[h].view = (IF h \in DOMAIN snapshots THEN snapshots[h].view ELSE db)

\* C6 as stated: buffered writes are returned to the unit that buffered them
\* and reach the store, and so any other unit's snapshot, only by a physical
\* commit; and a unit that starts a fresh unit of work (beginUnitOfWork at
\* depth 0) reads, for the keys it has not buffered, what the store holds
\* then, every committed write included.
C6_Original ==
    [][/\ GetReadsBatchThenSnapshot
       /\ ViewsAreCommittedStates
       /\ OnlyCommitsWrite
       /\ (last'.op = "beginUnitOfWork" /\ last'.depth = 0) =>
              \A key \in Keys :
                  Untouched(_writeBatch'[last'.unit], "cf1", key)
                      => NextGet("cf1", key) = DbGet(db', "cf1", key)]_vars

\* C6 amended: buffered writes are returned to the unit that buffered them
\* and reach the store, and so any other unit's snapshot, only by a physical
\* commit; a unit reads what the store holds then, every committed write
\* included, when its Get takes a new snapshot, which is the case after its
\* own physical commit or abort and at a beginUnitOfWork before which it
\* held no snapshot.  beginUnitOfWork does not replace a snapshot held.
C6_Isolation ==
    [][/\ GetReadsBatchThenSnapshot
       /\ ViewsAreCommittedStates
       /\ OnlyCommitsWrite
       /\ (last'.op = "Get" /\ NumCalls(last'.calls, "GetSnapshot") > 0) =>
              last'.result = DbGet(db', last'.cf, last'.key)
       /\ (\/ PhysicalCommit
           \/ PhysicalAbort
           \/ last'.op = "beginUnitOfWork" /\ _snapshot[last'.unit] = NULL) =>
              \A key \in Keys :
                  Untouched(_writeBatch'[last'.unit], "cf1", key)
                      => NextGet("cf1", key) = DbGet(db', "cf1", key)
       /\ last'.op = "beginUnitOfWork" => _snapshot'[last'.unit] = _snapshot[last'.unit]]_vars

\* B, on a new snapshot, has read the value A committed over the initial one
C6_Witness ==
    /\ last.op = "Get" /\ last.unit = "B"
    /\ NumCalls(last.calls, "GetSnapshot") = 1
    /\ last.result = StatusOK(<<50>>)
    /\ _depth["B"] = 1

(* ------------------------------- C7 ------------------------------------ *)
\* the unit keeps its handle and the handle its view in this step, and a Get
\* of the unit on a key it has not buffered is served from that handle
KeepsSnapshot(u) ==
    /\ _snapshot'[u] = _snapshot[u]
    /\ _snapshot[u] \in DOMAIN snapshots'
    /\ snapshots'[_snapshot[u]] = snapshots[_snapshot[u]]
    /\ (last'.unit = u /\ last'.op = "Get") =>
           /\ NumCalls(last'.calls, "GetSnapshot") = 0
           /\ Untouched(_writeBatch[u], last'.cf, last'.key) =>
                  last'.result = DbGet(snapshots[_snapshot[u]].view, last'.cf, last'.key)

\* C7 as stated: a unit that holds a snapshot keeps it, and reads from it,
\* through every call of any unit but its own start of a new unit of work
\* (beginUnitOfWork, or commitAndRestart that readies the unit for reuse).
C7_Original ==
    [][\A u \in Units :
          (/\ _snapshot[u] # NULL
           /\ ~(last'.unit = u /\ last'.op \in {"beginUnitOfWork", "commitAndRestart"}))
              => KeepsSnapshot(u)]_vars

\* C7 amended: a unit that holds a snapshot keeps it, and reads from it,
\* through every call of any unit but its own physical commit or abort
\* (commitUnitOfWork at depth <= 1, commitAndRestart, endUnitOfWork reaching
\* depth 0, destruction), so that no write another unit commits after the
\* snapshot was taken appears in its Gets before then.
C7_StableSnapshot ==
    [][\A u \in Units :
          (_snapshot[u] # NULL /\ ~(last'.unit = u /\ (PhysicalCommit \/ PhysicalAbort)))
              => KeepsSnapshot(u)]_vars

\* B has read from the snapshot it held a value the store no longer holds
C7_Witness ==
    /\ last.op = "Get" /\ last.unit = "B"
    /\ NumCalls(last.calls, "GetSnapshot") = 0
    /\ last.result # DbGet(db, last.cf, last.key)
    /\ last.result = DbGet(snapshots[_snapshot["B"]].view, last.cf, last.key)

(* ------------------------------- C11 ----------------------------------- *)
\* the call that ends in the next state made a Write the store rejected
WriteRejected == NumCalls(last'.calls, "Write") > 0 /\ last'.written = <<>>

\* C11: a call whose Write the store rejects ends in the fatal state, with
\* the store as it was, the conflict tracker not notified of a commit, no
\* Change committed and the snapshot not released; and no call is made in
\* the fatal state: every step starts in a state that is not fatal.
C11_RejectedWriteIsFatal ==
    [][/\ ~fatal
       /\ WriteRejected =>
              /\ fatal'
              /\ db' = db
              /\ NumCalls(last'.calls, "transaction.commit") = 0
              /\ NumCalls(last'.calls, "Change.commit") = 0
              /\ NumCalls(last'.calls, "ReleaseSnapshot") = 0
              /\ _changes'[last'.unit] = _changes[last'.unit]]_vars

\* a commit at depth 1 with a buffered write and a Change registered has had
\* its Write rejected
C11_Witness ==
    /\ fatal
    /\ last.op = "commitUnitOfWork" /\ last.depth = 1
    /\ NumCalls(last.calls, "Write") = 1 /\ last.written = <<>>
    /\ _changes[last.unit] # <<>>

(* ------------------------------- C12 ----------------------------------- *)
\* every call `first` in the log precedes every call `second`
Precedes(calls, first, second) ==
    \A i, j \in 1..Len(calls) :
        (calls[i].call = first /\ calls[j].call = second) => i < j

\* the next state ends a commitUnitOfWork run at depth <= 1
CommitRuns ==
    \/ last'.op = "commitUnitOfWork" /\ last'.depth <= 1
    \/ last'.op = "commitAndRestart" /\ last'.depth = 0

\* C12: in a commitUnitOfWork run at depth <= 1 the batch written holds the
\* records buffered before the call followed by one put for every pending
\* counter delta (the flush comes before the Write); the Write precedes the
\* tracker's commit, which precedes every Change's commit(), which precedes
\* the release of the snapshot; after a rejected Write none of these is
\* called.  When the unit has records buffered, the calls are exactly the
\* Write, the tracker's commit, the clearing of the deltas and of the batch,
\* the Changes' commits in order and the release of the snapshot held.
C12_CommitOrder ==
    [][CommitRuns =>
          LET u    == last'.unit
              c    == last'.calls
              nrec == Count(_writeBatch[u])
              ndc  == Cardinality(DOMAIN _deltaCounters[u])
          IN  /\ Precedes(c, "Write", "transaction.commit")
              /\ Precedes(c, "Write", "Change.commit")
              /\ Precedes(c, "Write", "ReleaseSnapshot")
              /\ Precedes(c, "transaction.commit", "Change.commit")
              /\ Precedes(c, "transaction.commit", "ReleaseSnapshot")
              /\ Precedes(c, "Change.commit", "ReleaseSnapshot")
              /\ fatal' =>
                    /\ NumCalls(c, "transaction.commit") = 0
                    /\ NumCalls(c, "Change.commit") = 0
                    /\ NumCalls(c, "ReleaseSnapshot") = 0
              /\ (~fatal' /\ NumCalls(c, "Write") > 0) =>
                    /\ Len(last'.written) = nrec + ndc
                    /\ SubSeq(last'.written, 1, nrec) = _writeBatch[u].rep
                    /\ \A key \in DOMAIN _deltaCounters[u] :
                          \E i \in (nrec + 1)..(nrec + ndc) :
                              last'.written[i]
                                  = PutRecord("default", key, EncodeLongLong(
                                        counters'[_deltaCounters[u][key]._value]))
              /\ (~fatal' /\ nrec > 0) =>
                    c = <<Call("Write", nrec + ndc), Call("transaction.commit", 0),
                          Call("_deltaCounters.clear", ndc),
                          Call("_writeBatch.reset", nrec + ndc)>>
                        \o CallsOn("Change.commit", _changes[u])
                        \o (IF _snapshot[u] # NULL
                                THEN <<Call("ReleaseSnapshot", _snapshot[u])>>
                                ELSE <<>>)]_vars

\* a commit at depth 1 has flushed a counter delta, written, notified the
\* tracker, committed a Change and released the snapshot
C12_Witness ==
    /\ last.op = "commitUnitOfWork" /\ last.depth = 1 /\ ~fatal
    /\ \E i \in 1..Len(last.written) : last.written[i].cf = "default"
    /\ Len(last.written) >= 2
    /\ NumCalls(last.calls, "transaction.commit") = 1
    /\ NumCalls(last.calls, "Change.commit") >= 1
    /\ NumCalls(last.calls, "ReleaseSnapshot") = 1

(* ------------------------------- C13 ----------------------------------- *)
\* C13: every GetSnapshot a call makes comes right after a recordSnapshotId
\* of the same call, so that no handle enters the store's live handles
\* without one; and a read made while the unit holds a handle makes neither
\* call and leaves the handle in place.
C13_RecordBeforeCapture ==
    [][/\ \A i \in 1..Len(last'.calls) :
              last'.calls[i].call = "GetSnapshot" =>
                  (i > 1 /\ last'.calls[i - 1].call = "recordSnapshotId")
       /\ (DOMAIN snapshots' \ DOMAIN snapshots # {}) =>
              NumCalls(last'.calls, "recordSnapshotId") > 0
       /\ (last'.op \in {"Get", "NewIterator"} /\ _snapshot[last'.unit] # NULL) =>
              /\ NumCalls(last'.calls, "GetSnapshot") = 0
              /\ NumCalls(last'.calls, "recordSnapshotId") = 0
              /\ _snapshot'[last'.unit] = _snapshot[last'.unit]]_vars

\* a Get has captured a snapshot again, after a release, and recorded the
\* unit's second snapshot id right before
C13_Witness ==
    /\ last.op = "Get"
    /\ last.calls = <<Call("recordSnapshotId", 0), Call("GetSnapshot", _snapshot[last.unit])>>
    /\ _transaction[last.unit].recorded = 2

(* ------------------------------- C14 ----------------------------------- *)
\* C14 as stated: a unit's transaction gets recordSnapshotId once in the
\* unit's life, in the call that captures its first snapshot, right before
\* the capture.
C14_Original ==
    [][NumCalls(last'.calls, "recordSnapshotId") > 0 =>
          /\ _transaction[last'.unit].recorded = 0
          /\ NumCalls(last'.calls, "recordSnapshotId") = 1
          /\ NumCalls(last'.calls, "GetSnapshot") = 1]_vars

\* C14 amended: a unit's transaction gets recordSnapshotId once for every
\* snapshot the unit captures, the first and every one captured after a
\* release, right before the capture and in no other call: the calls it has
\* got in the unit's life are as many as the captures, and a call that finds
\* a handle held makes none.
C14_OncePerCapture ==
    [][/\ NumCalls(last'.calls, "recordSnapshotId") = NumCalls(last'.calls, "GetSnapshot")
       /\ NumCalls(last'.calls, "recordSnapshotId") <= 1
       /\ NumCalls(last'.calls, "recordSnapshotId") = 1 =>
              /\ last'.op \in {"Get", "NewIterator"}
              /\ _snapshot[last'.unit] = NULL
              /\ _snapshot'[last'.unit] # NULL
       /\ \A u \in Units :
              IF last'.unit = u /\ last'.op = "RocksRecoveryUnit"
                  THEN _transaction'[u].recorded = 0
                  ELSE _transaction'[u].recorded - _transaction[u].recorded
                           = Cardinality(Owned(snapshots', u) \ Owned(snapshots, u))]_vars

\* the unit has read on a held handle after its second capture
C14_Witness ==
    /\ last.op \in {"Get", "NewIterator"}
    /\ last.calls = <<>>
    /\ _snapshot[last.unit] # NULL
    /\ _transaction[last.unit].recorded = 2

(* ------------------------------- C15 ----------------------------------- *)
\* C15 as stated: every commitUnitOfWork run at depth <= 1 that the store
\* does not fail, with or without a write batch, notifies the tracker's
\* commit() exactly once, after any Write it makes; and no other call
\* notifies it.
C15_Original ==
    [][/\ (CommitRuns /\ ~fatal') =>
              /\ NumCalls(last'.calls, "transaction.commit") = 1
              /\ Precedes(last'.calls, "Write", "transaction.commit")
       /\ NumCalls(last'.calls, "transaction.commit") > 0 => CommitRuns]_vars

\* C15 amended: a commitUnitOfWork run at depth <= 1 notifies the tracker's
\* commit() exactly once when it makes a Write and the store accepts it,
\* after that Write, and not at all when it makes no Write (no write batch,
\* or nothing in it) or the Write is rejected; it makes a Write exactly
\* when the unit has a write batch that holds a record once the pending
\* deltas are flushed into it; and no other call notifies commit().
C15_CommitNotifiedPerWrite ==
    [][/\ CommitRuns =>
              /\ NumCalls(last'.calls, "transaction.commit")
                     = (IF NumCalls(last'.calls, "Write") = 1 /\ ~fatal' THEN 1 ELSE 0)
              /\ Precedes(last'.calls, "Write", "transaction.commit")
              /\ NumCalls(last'.calls, "Write")
                     = (IF /\ _writeBatch[last'.unit].allocated
                           /\ Count(_writeBatch[last'.unit])
                                  + Cardinality(DOMAIN _deltaCounters[last'.unit]) > 0
                           THEN 1 ELSE 0)
              /\ NumCalls(last'.calls, "transaction.commit") = 1 =>
                     (last'.written # <<>> /\ db' = DbWrite(db, last'.written))
       /\ NumCalls(last'.calls, "transaction.commit") > 0 => CommitRuns]_vars

\* a commit at depth 1 of a unit with buffered records has notified the
\* tracker once
C15_Witness ==
    /\ last.op = "commitUnitOfWork" /\ last.depth = 1 /\ ~fatal
    /\ last.written # <<>>
    /\ NumCalls(last.calls, "transaction.commit") = 1

(* ------------------------------- C16 ----------------------------------- *)
\* the next state ends the endUnitOfWork that follows, at depth 1, the
\* unit's commitUnitOfWork that ran the commit
EndAfterCommit ==
    /\ last.op = "commitUnitOfWork" /\ last.depth = 1 /\ ~fatal
    /\ last'.op = "endUnitOfWork" /\ last'.unit = last.unit

\* C16 as stated: the endUnitOfWork that follows the commit at depth 1 and
\* brings the depth to 0 makes no Write, no Change callback, no snapshot
\* call and no conflict-tracker call.
C16_Original ==
    [][EndAfterCommit =>
          /\ _depth'[last'.unit] = 0
          /\ \A i \in 1..Len(last'.calls) :
                last'.calls[i].call \notin
                    {"Write", "Change.commit", "Change.rollback", "GetSnapshot",
                     "ReleaseSnapshot", "recordSnapshotId", "transaction.commit",
                     "transaction.abort"}]_vars

\* C16 amended: the endUnitOfWork that follows the commit at depth 1 and
\* brings the depth to 0 runs the abort path on the unit the commit left:
\* it makes no Write, no Change callback and no snapshot call and leaves the
\* store and the counters as they are, and it notifies the conflict
\* tracker's abort() once.
C16_EndAfterCommit ==
    [][EndAfterCommit =>
          /\ _depth'[last'.unit] = 0
          /\ \A i \in 1..Len(last'.calls) :
                last'.calls[i].call \notin
                    {"Write", "Change.commit", "Change.rollback", "GetSnapshot",
                     "ReleaseSnapshot", "recordSnapshotId", "transaction.commit"}
          /\ NumCalls(last'.calls, "transaction.abort") = 1
          /\ db' = db /\ counters' = counters /\ snapshots' = snapshots
          /\ _writeBatch'[last'.unit] = NoWriteBatch
          /\ _changes'[last'.unit] = <<>>]_vars

\* the unit of work whose commit wrote and committed a Change has been ended
C16_Witness ==
    /\ last.op = "endUnitOfWork" /\ last.depth = 1
    /\ NumCalls(last.calls, "transaction.abort") = 1
    /\ NumCalls(last.calls, "Change.rollback") = 0
    /\ db # InitStore
    /\ _depth[last.unit] = 0

(* ------------------------------- C17 ----------------------------------- *)
\* C17: every Write is made with the write-ahead log disabled exactly when
\* the unit was constructed with durable = false.
C17_DurableControlsWAL ==
    [][NumCalls(last'.calls, "Write") > 0 =>
          last'.writeOptions.disableWAL = ~_durable[last'.unit]]_vars

(* ------------------------------- C18 ----------------------------------- *)
\* C18: after every physical commit and every physical abort the unit has
\* no counter delta and no write batch: getDeltaCounter returns 0 for every
\* key; so the puts a Write makes for counters are for deltas passed since
\* the unit's last physical commit or abort.
C18_BuffersCleared ==
    [][(PhysicalCommit \/ PhysicalAbort) =>
          /\ _deltaCounters'[last'.unit] = EmptyMap
          /\ _writeBatch'[last'.unit] = NoWriteBatch
          /\ \A key \in Keys :
                Pending(_deltaCounters'[last'.unit], key) = 0]_vars

(* ------------------------------- C19 ----------------------------------- *)
\* C19: whatever the order of the calls, no call leaves the depth of a unit
\* below 0, and an endUnitOfWork runs the abort exactly when it brings the
\* depth to 0.
C19_DepthNeverNegative ==
    [][/\ \A u \in Units : _depth'[u] >= 0
       /\ last'.op = "endUnitOfWork" =>
              (NumCalls(last'.calls, "transaction.abort") > 0
                   <=> _depth'[last'.unit] = 0)]_vars

(* ------------------------------- C20 ----------------------------------- *)
\* no unit is inside a commit
NoCommitRunning == \A u \in Units : pc[u] = Idle

\* C20: the in-memory counter changes only by the atomic adds of the
\* commits, each adding its unit's delta, so that after the commits it holds
\* the initial value plus d1 + d2; and whenever the commits have completed
\* (none is running and none was rejected) the value persisted under the
\* counter key is the in-memory counter's.
C20_ConcurrentCounter ==
    [][/\ IF last'.op = "fetch_add"
              THEN counters'["r1"] = counters["r1"] + _deltaCounters[last'.unit][last'.key]._delta
              ELSE counters' = counters
       /\ (NoCommitRunning' /\ ~fatal' /\ counters'["r1"] # 0) =>
              DbGet(db', "default", <<120>>) = StatusOK(EncodeLongLong(counters'["r1"]))]_vars

====
